---- MODULE Spec2Model ----
(***************************************************************************)
(* delegate<int(int)> of include/delegate/delegate.hpp: a two-word         *)
(* callable reference (m_cb: pointer to a trampoline, m_ptr: a union of a  *)
(* void* and a function pointer), its binding operations (set / make),     *)
(* clear, copy, invocation, equal and less, and the MemFkn handle.         *)
(*                                                                         *)
(* Pointers are addresses.  Where the linker puts the trampolines, the     *)
(* free functions and the objects is not fixed by the source, so the       *)
(* initial state draws the placement from several layouts.                 *)
(***************************************************************************)
EXTENDS Integers, Sequences, FiniteSets, TLC

----------------------------------------------------------------------------
(* The client program: two delegates, objects of a class X, free functions *)

\* delegate<int(int)> a, b;
Refs == {"a", "b"}

\* X x, y;  const X cx;   X has  int m(int), int cm(int) const,
\* int operator()(int), int operator()(int) const.
NonConstObjs == {"x", "y"}
ConstObjs == {"cx"}
Objs == NonConstObjs \cup ConstObjs

\* The storage of a temporary X{...}: dead once the binding expression ends.
TempObj == "tmp"

\* int f(int), int g(int): free functions with the delegate's signature.
Fkns == {"f", "g"}

\* Largest argument value passed to an invocation.
MaxArg == 1
Args == 0..MaxArg

\* The null pointer value of void*, of TargetFreeCB and of a template
\* argument R (*fkn)(Args...).
NullPtr == 0
NoFkn == "nullptr"

\* X::v of each object, read by the member functions below.
ObjField(o) == CASE o = "x" -> 10 [] o = "y" -> 20 [] OTHER -> 30

\* The targets a delegate can be bound to, as the values they return.
FreeFknValue(fkn, a) == IF fkn = "f" THEN a + 1 ELSE a + 2
MemberValue(o, a) == ObjField(o) + a
ConstMemberValue(o, a) == 2 * ObjField(o) + a
FunctorValue(o, a) == 3 * ObjField(o) + a
ConstFunctorValue(o, a) == 4 * ObjField(o) + a
CtxRefValue(o, a) == 5 * ObjField(o) + a
CtxConstRefValue(o, a) == 6 * ObjField(o) + a

----------------------------------------------------------------------------
(* Trampolines: one function per template instantiation                     *)

Tramp(kind, tgt) == [kind |-> kind, tgt |-> tgt]

doNullFkn == Tramp("doNullFkn", "-")
doFreeCB(fkn) == Tramp("doFreeCB", fkn)
doMemberCB == Tramp("doMemberCB", "X::m")
doConstMemberCB == Tramp("doConstMemberCB", "X::cm")
doFunctor == Tramp("doFunctor", "X")
doConstFunctor == Tramp("doConstFunctor", "X")
doRuntimeFkn == Tramp("doRuntimeFkn", "-")
dofreeFknWithObjectRef == Tramp("dofreeFknWithObjectRef", "h")
dofreeFknWithObjectConstRef == Tramp("dofreeFknWithObjectConstRef", "hc")

\* The order in which one build emits the trampolines, the free functions
\* and the objects; the other builds considered place them in reverse.
TrampOrder ==
    << doNullFkn, doFreeCB("f"), doFreeCB("g"), doMemberCB, doConstMemberCB,
       doFunctor, doConstFunctor, doRuntimeFkn, dofreeFknWithObjectRef,
       dofreeFknWithObjectConstRef >>
FknOrder == << "f", "g" >>
ObjOrder == << "x", "y", "cx", "tmp" >>

Trampolines == {TrampOrder[k] : k \in 1..Len(TrampOrder)}

\* Every two trampolines, every two functions and every two objects stand
\* in one relative order in one layout and in the other order in the other.
Layouts == {"ascending", "descending"}

VARIABLES
    layout,   \* where this build placed code and data
    d,        \* d[r]: the delegate r, [m_cb, m_ptr]
    last      \* the operation performed last and what it did (history)

vars == << layout, d, last >>

IndexOf(seq, e) == CHOOSE k \in 1..Len(seq) : seq[k] = e

\* The address of the k-th of n symbols under a placement direction.
Place(seq, e, dir) ==
    IF dir = "ascending" THEN IndexOf(seq, e) ELSE Len(seq) + 1 - IndexOf(seq, e)

\* &trampoline, the value of a function pointer, &object.
CbAddr(t) == Place(TrampOrder, t, layout)
FknAddr(fkn) == IF fkn = NoFkn THEN NullPtr ELSE Place(FknOrder, fkn, layout)
ObjAddr(o) == Place(ObjOrder, o, layout)

TrampAt(addr) == CHOOSE t \in Trampolines : CbAddr(t) = addr
FknAt(addr) == CHOOSE fkn \in Fkns : FknAddr(fkn) = addr
ObjAt(addr) == CHOOSE o \in Objs \cup {TempObj} : ObjAddr(o) = addr

----------------------------------------------------------------------------
(* union DataPtr and the private constructors of delegate                   *)

\* A pointer expression with its static type; ok is FALSE once a cast in
\* it is ill-formed.
Ptr(ok, type, bits) == [ok |-> ok, type |-> type, bits |-> bits]

\* &o for an argument bound to a reference to (const) X.
AddressOf(obj, isConst) ==
    Ptr(TRUE, IF isConst THEN "const X*" ELSE "X*", ObjAddr(obj))

\* A cast to void* that also casts away const, as (void*)p does.
CStyleCastVoidPtr(p) == Ptr(p.ok, "void*", p.bits)

\* static_cast<void*>(p): cannot cast away const.
StaticCastVoidPtr(p) == Ptr(p.ok /\ p.type \in {"X*", "void*"}, "void*", p.bits)

\* static_cast<const void*>(p), static_cast<void const*>(p).
StaticCastConstVoidPtr(p) == Ptr(p.ok, "const void*", p.bits)

\* const_cast<void*>(p) of a const void*.
ConstCastVoidPtr(p) ==
    Ptr(p.ok /\ p.type \in {"const void*", "void*"}, "void*", p.bits)

\* static_cast<void*>(nullptr)
NullVoidPtr == Ptr(TRUE, "void*", NullPtr)

\* A value of type TargetFreeCB.
FknPtr(fkn) == Ptr(TRUE, "TargetFreeCB", FknAddr(fkn))

\* The union: which member was written last, and the word it occupies.
DataPtr_default == [active |-> "v_ptr", bits |-> NullPtr]
DataPtr_void(bits) == [active |-> "v_ptr", bits |-> bits]
DataPtr_fkn(bits) == [active |-> "fkn_ptr", bits |-> bits]

\* DataPtr(p): overload resolution among DataPtr(void*) and
\* DataPtr(TargetFreeCB); a const void* converts to neither.
DataPtrCtorViable(p) == p.ok /\ p.type \in {"void*", "TargetFreeCB"}
DataPtrCtor(p) ==
    IF p.type = "TargetFreeCB" THEN DataPtr_fkn(p.bits) ELSE DataPtr_void(p.bits)

\* Reads of the union members (both members occupy the same word).
v_ptr(u) == u.bits
fkn_ptr(u) == u.bits

Delegate(cb, u) == [m_cb |-> cb, m_ptr |-> u]

\* The result of a binding expression: ok is FALSE when the expression is
\* ill-formed (the program does not build), val is the delegate produced.
Built(val) == [ok |-> TRUE, val |-> val]
NoDelegate == Delegate(NullPtr, DataPtr_default)
IllFormed == [ok |-> FALSE, val |-> NoDelegate]

\* delegate(Trampoline cb, void* ptr), delegate(Trampoline cb, const void*
\* ptr), delegate(Trampoline cb, TargetFreeCB fkn): each initialises
\* m_cb(cb), m_ptr(ptr).
Construct(cb, p) ==
    IF DataPtrCtorViable(p) THEN Built(Delegate(CbAddr(cb), DataPtrCtor(p)))
    ELSE IllFormed

\* delegate(nullptr_t = nullptr): m_cb(&doNullFkn), m_ptr default.
DefaultConstruct == Delegate(CbAddr(doNullFkn), DataPtr_default)

----------------------------------------------------------------------------
(* Invocation                                                               *)

\* What one invocation did: the value returned, the targets called (in
\* order), and whether behaviour was undefined.
Outcome(ret, calls) == [ret |-> ret, calls |-> calls, ub |-> FALSE]
CallOf(tgt, obj, a) == [tgt |-> tgt, obj |-> obj, arg |-> a]

\* Undefined behaviour (a call through a null function pointer, a call on a
\* dead or absent object): the call may trap, or do and return anything.
UndefinedOutcomes ==
    {[ret |-> r, calls |-> c, ub |-> TRUE] :
        r \in -1..MaxArg, c \in {<< >>, << CallOf("?", "-", 0) >>}}

\* details::nullReturnFunction<R>(): R{}.
nullReturnFunction == 0

LiveObjAt(addr) == addr # NullPtr /\ ObjAt(addr) \in Objs

\* The body of each trampoline: the set of outcomes of t(u, a).
TrampolineOutcomes(t, u, a) ==
    CASE t.kind = "doNullFkn" -> {Outcome(nullReturnFunction, << >>)}
      [] t.kind = "doFreeCB" ->
            {Outcome(FreeFknValue(t.tgt, a), << CallOf(t.tgt, "-", a) >>)}
      [] t.kind = "doRuntimeFkn" ->
            IF fkn_ptr(u) = NullPtr THEN UndefinedOutcomes
            ELSE LET fkn == FknAt(fkn_ptr(u))
                 IN {Outcome(FreeFknValue(fkn, a), << CallOf(fkn, "-", a) >>)}
      [] OTHER ->
            IF ~LiveObjAt(v_ptr(u)) THEN UndefinedOutcomes
            ELSE LET obj == ObjAt(v_ptr(u))
                 IN CASE t.kind = "doMemberCB" ->
                        {Outcome(MemberValue(obj, a), << CallOf("X::m", obj, a) >>)}
                      [] t.kind = "doConstMemberCB" ->
                        {Outcome(ConstMemberValue(obj, a),
                                 << CallOf("X::cm", obj, a) >>)}
                      [] t.kind = "doFunctor" ->
                        {Outcome(FunctorValue(obj, a),
                                 << CallOf("X::operator()", obj, a) >>)}
                      [] t.kind = "doConstFunctor" ->
                        {Outcome(ConstFunctorValue(obj, a),
                                 << CallOf("X::operator() const", obj, a) >>)}
                      [] t.kind = "dofreeFknWithObjectRef" ->
                        {Outcome(CtxRefValue(obj, a), << CallOf("h", obj, a) >>)}
                      [] OTHER ->
                        {Outcome(CtxConstRefValue(obj, a),
                                 << CallOf("hc", obj, a) >>)}

\* R operator()(Args... args) const: m_cb(m_ptr, args...).
Invoke(self, a) == TrampolineOutcomes(TrampAt(self.m_cb), self.m_ptr, a)

----------------------------------------------------------------------------
(* Queries and comparisons                                                  *)

\* bool null() const: m_cb == doNullFkn.
null(self) == self.m_cb = CbAddr(doNullFkn)

\* explicit operator bool() const: !null().
bool(self) == ~null(self)

\* equal comparing the trampolines alone.
equal_adapter_only(lhs, rhs) == lhs.m_cb = rhs.m_cb

\* static bool equal(const delegate& lhs, const delegate& rhs).
equal(lhs, rhs) ==
    /\ lhs.m_cb = rhs.m_cb
    /\ IF lhs.m_cb = CbAddr(doRuntimeFkn)
       THEN fkn_ptr(lhs.m_ptr) = fkn_ptr(rhs.m_ptr)
       ELSE v_ptr(lhs.m_ptr) = v_ptr(rhs.m_ptr)

\* operator==(const delegate&, const delegate&), operator!=.
OperatorEq(lhs, rhs) == equal(lhs, rhs)
OperatorNe(lhs, rhs) == ~OperatorEq(lhs, rhs)

\* operator==(nullptr_t, const delegate&), operator==(const delegate&,
\* nullptr_t): null().
OperatorEqNullptr(self) == null(self)

\* static bool less(const delegate& lhs, const delegate& rhs).
less(lhs, rhs) ==
    \/ (null(lhs) /\ ~null(rhs))
    \/ lhs.m_cb < rhs.m_cb
    \/ /\ lhs.m_cb = rhs.m_cb
       /\ IF lhs.m_cb = CbAddr(doRuntimeFkn)
          THEN fkn_ptr(lhs.m_ptr) < fkn_ptr(rhs.m_ptr)
          ELSE v_ptr(lhs.m_ptr) < v_ptr(rhs.m_ptr)

----------------------------------------------------------------------------
(* Overload resolution of the binding calls                                 *)

\* An argument expression naming an object of class X: an lvalue (x, y,
\* cx) or a temporary (X{...}, or the result of a function returning
\* const X).
ArgExpr(obj, isConst, isRvalue) ==
    [obj |-> obj, const |-> isConst, rvalue |-> isRvalue]
Lvalue(o) == ArgExpr(o, o \in ConstObjs, FALSE)
Temporary(isConst) == ArgExpr(TempObj, isConst, TRUE)
ArgExprs == {Lvalue(o) : o \in Objs} \cup {Temporary(c) : c \in BOOLEAN}

\* One overload: the source line of its declaration, the form of its
\* object parameter (T deduced, or X given explicitly) and whether it is
\* declared = delete.
Overload(line, param, deleted) ==
    [line |-> line, param |-> param, deleted |-> deleted]
NoOverload == Overload(0, "-", TRUE)

\* Reference binding of the parameter to the argument: whether it can bind,
\* whether the parameter is then an rvalue reference, and whether the type
\* it refers to is const.
RefBinding(param, arg) ==
    CASE param = "T&" ->
            [viable |-> ~arg.rvalue \/ arg.const, rref |-> FALSE,
             const |-> arg.const]
      [] param = "T const&" ->
            [viable |-> TRUE, rref |-> FALSE, const |-> TRUE]
      [] param = "T&&" ->
            [viable |-> TRUE, rref |-> arg.rvalue, const |-> arg.const]
      [] param = "X&" ->
            [viable |-> ~arg.rvalue /\ ~arg.const, rref |-> FALSE,
             const |-> FALSE]
      [] param = "X const&" ->
            [viable |-> TRUE, rref |-> FALSE, const |-> TRUE]
      [] param = "X&&" ->
            [viable |-> arg.rvalue /\ ~arg.const, rref |-> TRUE,
             const |-> FALSE]
      [] OTHER -> [viable |-> FALSE, rref |-> FALSE, const |-> FALSE]

\* Ranking of two reference bindings: an rvalue reference bound to an
\* rvalue beats an lvalue reference; a less cv-qualified referred type
\* beats a more qualified one.
BetterConversion(b1, b2, arg) ==
    \/ arg.rvalue /\ b1.rref /\ ~b2.rref
    \/ ~b1.const /\ b2.const

\* Partial ordering of the function templates: T const& is more specialised
\* than T&, which is more specialised than T&&.
Specialisation(param) ==
    CASE param = "T const&" -> 3 [] param = "T&" -> 2 [] param = "T&&" -> 1
      [] OTHER -> 0

BetterOverload(c1, c2, arg) ==
    LET b1 == RefBinding(c1.param, arg)
        b2 == RefBinding(c2.param, arg)
    IN \/ BetterConversion(b1, b2, arg)
       \/ /\ ~BetterConversion(b2, b1, arg)
          /\ Specialisation(c1.param) > Specialisation(c2.param)

\* The overload the call selects; NoOverload when none is viable or the
\* call is ambiguous.
Resolve(candidates, arg) ==
    LET viable == {c \in candidates : RefBinding(c.param, arg).viable}
        best == {c \in viable :
                    \A c2 \in viable \ {c} : BetterOverload(c, c2, arg)}
    IN IF best = {} THEN NoOverload ELSE CHOOSE c \in best : TRUE

\* &tr inside the selected overload: the pointee is const when the
\* parameter refers to a const type.
AddressOfParam(c, arg) == AddressOf(arg.obj, RefBinding(c.param, arg).const)

----------------------------------------------------------------------------
(* clear, and binding to free functions                                     *)

\* Assignment to the members of *this.
Assign(self, cb, u) == Built([self EXCEPT !.m_cb = CbAddr(cb), !.m_ptr = u])

\* clear resetting the trampoline and leaving the data word as it was.
clear_adapter_only(self) == [self EXCEPT !.m_cb = CbAddr(doNullFkn)]

\* void clear(): m_cb = doNullFkn; m_ptr.v_ptr = nullptr.
clear(self) == Assign(self, doNullFkn, DataPtr_void(NullPtr)).val

\* set<fkn>() selecting the trampoline and leaving the data word as it was.
set_free_data_kept(self, fkn) ==
    Built([self EXCEPT
              !.m_cb = CbAddr(IF fkn # NoFkn THEN doFreeCB(fkn) ELSE doNullFkn)])

\* template <R (*fkn)(Args...)> delegate& set().
set_free(self, fkn) ==
    Assign(self, IF fkn # NoFkn THEN doFreeCB(fkn) ELSE doNullFkn,
           DataPtr_void(NullPtr))

\* template <R (*fkn)(Args...)> static delegate make().
make_free(fkn) ==
    Construct(IF fkn # NoFkn THEN doFreeCB(fkn) ELSE doNullFkn, NullVoidPtr)

\* set(fkn) selecting the trampoline and not storing fkn.
set_runtime_not_stored(self, fkn) ==
    Built([self EXCEPT !.m_cb = CbAddr(doRuntimeFkn),
                       !.m_ptr = [@ EXCEPT !.active = "fkn_ptr"]])

\* delegate& set(TargetFreeCB fkn): m_cb = &doRuntimeFkn; m_ptr.fkn_ptr = fkn.
set_runtime(self, fkn) == Assign(self, doRuntimeFkn, DataPtr_fkn(FknPtr(fkn).bits))

\* delegate& set_fkn(TargetFreeCB fkn): return set(fkn).
set_fkn(self, fkn) == set_runtime(self, fkn)

\* static delegate make(TargetFreeCB fkn).
make_runtime(fkn) == Construct(doRuntimeFkn, FknPtr(fkn))

\* static delegate make_fkn(TargetFreeCB fkn).
make_fkn(fkn) == Construct(doRuntimeFkn, FknPtr(fkn))

Paths == {"set", "make"}
RuntimePaths == {"set", "set_fkn", "make", "make_fkn"}

\* The call d.set<fkn>() / delegate::make<fkn>().
BindFree(self, path, fkn) ==
    IF path = "set" THEN set_free(self, fkn) ELSE make_free(fkn)

\* The call d.set(fkn) / d.set_fkn(fkn) / delegate::make(fkn) /
\* delegate::make_fkn(fkn) with fkn of type TargetFreeCB.
BindRuntime(self, path, fkn) ==
    CASE path = "set" -> set_runtime(self, fkn)
      [] path = "set_fkn" -> set_fkn(self, fkn)
      [] path = "make" -> make_runtime(fkn)
      [] OTHER -> make_fkn(fkn)

----------------------------------------------------------------------------
(* Binding to an object: member functions, functors, context functions      *)

\* m_cb = cb; m_ptr.v_ptr = p (or m_ptr = p) for a pointer expression p of
\* type void*.
AssignObj(self, cbAddr, p) ==
    IF p.ok /\ p.type = "void*"
    THEN Built([self EXCEPT !.m_cb = cbAddr, !.m_ptr = DataPtr_void(p.bits)])
    ELSE IllFormed

\* delegate{cb, p} with cb already a trampoline address.
ConstructAt(cbAddr, p) ==
    IF DataPtrCtorViable(p) THEN Built(Delegate(cbAddr, DataPtrCtor(p)))
    ELSE IllFormed

\* The member functions of X a delegate<int(int)> can bind.
MemberFkns == {"X::m", "X::cm"}
IsConstMember(mf) == mf = "X::cm"

\* set<T, memFkn>(...): the overloads whose template head accepts memFkn.
SetMemberOverloads(mf) ==
    IF IsConstMember(mf)
    THEN {Overload(349, "X const&", FALSE), Overload(361, "X&&", TRUE)}
    ELSE {Overload(341, "X&", FALSE), Overload(358, "X&&", TRUE)}

\* make<T, memFkn>(...): no deleted overload is declared.
MakeMemberOverloads(mf) ==
    IF IsConstMember(mf)
    THEN {Overload(422, "X const&", FALSE)}
    ELSE {Overload(416, "X&", FALSE)}

\* set<T, memFkn>(T& tr): m_cb = &doMemberCB<T, memFkn>;
\* m_ptr.v_ptr = static_cast<void*>(&tr).
set_member(self, c, arg) ==
    AssignObj(self, CbAddr(doMemberCB), StaticCastVoidPtr(AddressOfParam(c, arg)))

\* set<T, memFkn>(T const& tr): m_cb = &doConstMemberCB<T, memFkn>;
\* m_ptr.v_ptr = const_cast<void*>(static_cast<const void*>(&tr)).
set_const_member(self, c, arg) ==
    AssignObj(self, CbAddr(doConstMemberCB),
              ConstCastVoidPtr(StaticCastConstVoidPtr(AddressOfParam(c, arg))))

\* make<T, memFkn>(T& o).
make_member(c, arg) ==
    Construct(doMemberCB, StaticCastVoidPtr(AddressOfParam(c, arg)))

\* make<T, memFkn>(const T& o).
make_const_member(c, arg) ==
    Construct(doConstMemberCB,
              ConstCastVoidPtr(StaticCastConstVoidPtr(AddressOfParam(c, arg))))

\* The call d.set<X, &X::mf>(arg) / delegate::make<X, &X::mf>(arg).
BindMember(self, path, mf, arg) ==
    LET c == Resolve(IF path = "set" THEN SetMemberOverloads(mf)
                     ELSE MakeMemberOverloads(mf), arg)
    IN CASE c.deleted -> IllFormed
         [] c.line = 341 -> set_member(self, c, arg)
         [] c.line = 349 -> set_const_member(self, c, arg)
         [] c.line = 416 -> make_member(c, arg)
         [] c.line = 422 -> make_const_member(c, arg)
         [] OTHER -> IllFormed

\* set(T&), set(T const&), set(T&&) = delete with T deduced.
SetFunctorOverloads ==
    {Overload(370, "T&", FALSE), Overload(378, "T const&", FALSE),
     Overload(387, "T&&", TRUE)}

\* make(T&), make(T const&), make(T&&) = delete.
MakeFunctorOverloads ==
    {Overload(435, "T&", FALSE), Overload(440, "T const&", FALSE),
     Overload(446, "T&&", TRUE)}

\* set(T& tr): m_cb = &doFunctor<T>; m_ptr.v_ptr = static_cast<void*>(&tr).
set_functor(self, c, arg) ==
    AssignObj(self, CbAddr(doFunctor), StaticCastVoidPtr(AddressOfParam(c, arg)))

\* set(T const& tr): m_cb = &doConstFunctor<T>.
set_const_functor(self, c, arg) ==
    AssignObj(self, CbAddr(doConstFunctor),
              ConstCastVoidPtr(StaticCastConstVoidPtr(AddressOfParam(c, arg))))

\* make(T& o).
make_functor(c, arg) ==
    Construct(doFunctor, StaticCastVoidPtr(AddressOfParam(c, arg)))

\* make(T const& o).
make_const_functor(c, arg) ==
    Construct(doConstFunctor,
              ConstCastVoidPtr(StaticCastConstVoidPtr(AddressOfParam(c, arg))))

\* The call d.set(arg) / delegate::make(arg) with arg of class type.
BindFunctor(self, path, arg) ==
    LET c == Resolve(IF path = "set" THEN SetFunctorOverloads
                     ELSE MakeFunctorOverloads, arg)
    IN CASE c.deleted -> IllFormed
         [] c.line = 370 -> set_functor(self, c, arg)
         [] c.line = 378 -> set_const_functor(self, c, arg)
         [] c.line = 435 -> make_functor(c, arg)
         [] c.line = 440 -> make_const_functor(c, arg)
         [] OTHER -> IllFormed

\* The context functions: int h(X&, int) and int hc(X const&, int).
CtxFkns == {"h", "hc"}

\* make<T, fkn>(T& o) for R (*fkn)(T&, Args...) and for
\* R (*fkn)(T const&, Args...), each with make<T, fkn>(T&&) = delete.
\* No set overload takes a context function.
MakeCtxOverloads(cf) ==
    IF cf = "h"
    THEN {Overload(465, "X&", FALSE), Overload(479, "X&&", TRUE)}
    ELSE {Overload(472, "X&", FALSE), Overload(481, "X&&", TRUE)}

\* return delegate{&dofreeFknWithObjectRef<T, fkn>, static_cast<void*>(&o)}.
make_ctx_ref(c, arg) ==
    Construct(dofreeFknWithObjectRef, StaticCastVoidPtr(AddressOfParam(c, arg)))

\* return delegate{&dofreeFknWithObjectConstRef<T, fkn>,
\*                 static_cast<void const*>(&o)}.
make_ctx_const_ref(c, arg) ==
    Construct(dofreeFknWithObjectConstRef,
              StaticCastConstVoidPtr(AddressOfParam(c, arg)))

\* The call delegate::make<X, cf>(arg).
BindCtx(cf, arg) ==
    LET c == Resolve(MakeCtxOverloads(cf), arg)
    IN CASE c.deleted -> IllFormed
         [] c.line = 465 -> make_ctx_ref(c, arg)
         [] c.line = 472 -> make_ctx_const_ref(c, arg)
         [] OTHER -> IllFormed

\* set<T, fkn>(...) with fkn a context function: the set templates take
\* <R (*)(Args...)>, <class T, R (T::*)(Args...)>, <class T,
\* R (T::*)(Args...) const> or <class T>; none accepts <T, R (*)(T&,
\* Args...)> or <T, R (*)(T const&, Args...)>.
SetCtxOverloads(cf) == {}

\* The call d.set<X, cf>(arg) / delegate::make<X, cf>(arg).
BindCtxBy(self, path, cf, arg) ==
    IF path = "make" THEN BindCtx(cf, arg)
    ELSE IF Resolve(SetCtxOverloads(cf), arg) = NoOverload THEN IllFormed
         ELSE Built(self)

----------------------------------------------------------------------------
(* MemFkn<delegate, cnst> and binding through it                            *)

\* MemFkn(Trampoline f): trampoline(f); cnst is the template argument.
MemFkn(cnst, t) == [cnst |-> cnst, trampoline |-> CbAddr(t)]

\* explicit constexpr MemFkn() = default: trampoline = Del::doNullFkn.
MemFkn_default(cnst) == MemFkn(cnst, doNullFkn)

\* memFkn with the const overload returning the non-const trampoline.
memFkn_same_trampoline(mf) == MemFkn(IsConstMember(mf), doMemberCB)

\* delegate::memFkn<T, memFkn_>(): const and non-const member function.
memFkn(mf) ==
    IF IsConstMember(mf) THEN MemFkn(TRUE, doConstMemberCB)
    ELSE MemFkn(FALSE, doMemberCB)

\* bool MemFkn::null() const.
MemFkn_null(f) == f.trampoline = CbAddr(doNullFkn)

\* The handles the program holds.
HandleNames == {"X::m", "X::cm", "MemFkn<false>{}", "MemFkn<true>{}"}
Handle(name) ==
    CASE name \in MemberFkns -> memFkn(name)
      [] name = "MemFkn<false>{}" -> MemFkn_default(FALSE)
      [] OTHER -> MemFkn_default(TRUE)

\* set(MemFkn<delegate, cnst> f, ...): the overloads for each cnst.
SetMemFknOverloads(cnst) ==
    IF cnst
    THEN {Overload(534, "T const&", FALSE), Overload(542, "T&", FALSE),
          Overload(549, "T&&", TRUE)}
    ELSE {Overload(526, "T&", FALSE), Overload(552, "T&&", TRUE)}

\* make(MemFkn<delegate, cnst> f, ...).
MakeMemFknOverloads(cnst) ==
    IF cnst
    THEN {Overload(564, "T const&", FALSE), Overload(571, "T&", FALSE),
          Overload(579, "T&&", TRUE)}
    ELSE {Overload(556, "T&", FALSE), Overload(561, "T const&", TRUE),
          Overload(577, "T&&", TRUE)}

\* set(MemFkn<delegate, false> f, T& o): m_cb = f.trampoline;
\* m_ptr = static_cast<void*>(&o).
set_MemFkn(self, f, c, arg) ==
    AssignObj(self, f.trampoline, StaticCastVoidPtr(AddressOfParam(c, arg)))

\* set(MemFkn<delegate, true> f, T const& o): m_cb = f.trampoline;
\* m_ptr = const_cast<void*>(static_cast<const void*>(&o)).
set_MemFkn_const(self, f, c, arg) ==
    AssignObj(self, f.trampoline,
              ConstCastVoidPtr(StaticCastConstVoidPtr(AddressOfParam(c, arg))))

\* set(MemFkn<delegate, true> f, T& o):
\* return set(f, static_cast<T const&>(o)), resolved again for a const
\* lvalue.
set_MemFkn_const_fwd(self, f, c, arg) ==
    LET carg == ArgExpr(arg.obj, TRUE, FALSE)
        c2 == Resolve(SetMemFknOverloads(TRUE), carg)
    IN IF c2.line = 534 THEN set_MemFkn_const(self, f, c2, carg) ELSE IllFormed

\* make(MemFkn<delegate, false> f, T& o) and make(MemFkn<delegate, true> f,
\* T& o): return delegate{f.trampoline, static_cast<void*>(&o)}.
make_MemFkn(f, c, arg) ==
    ConstructAt(f.trampoline, StaticCastVoidPtr(AddressOfParam(c, arg)))

\* make(MemFkn<delegate, true> f, T const& o).
make_MemFkn_const(f, c, arg) ==
    ConstructAt(f.trampoline,
                ConstCastVoidPtr(StaticCastConstVoidPtr(AddressOfParam(c, arg))))

\* The call d.set(f, arg) / delegate::make(f, arg).
BindMemFkn(self, path, f, arg) ==
    LET c == Resolve(IF path = "set" THEN SetMemFknOverloads(f.cnst)
                     ELSE MakeMemFknOverloads(f.cnst), arg)
    IN CASE c.deleted -> IllFormed
         [] c.line = 526 -> set_MemFkn(self, f, c, arg)
         [] c.line = 534 -> set_MemFkn_const(self, f, c, arg)
         [] c.line = 542 -> set_MemFkn_const_fwd(self, f, c, arg)
         [] c.line \in {556, 571} -> make_MemFkn(f, c, arg)
         [] c.line = 564 -> make_MemFkn_const(f, c, arg)
         [] OTHER -> IllFormed

----------------------------------------------------------------------------
(* The state machine: the operations the program applies to a and b         *)

\* History record of the last operation: a binding, clear or copy of ref
\* (op, path, tgt, obj), or an invocation ref(arg) with what it returned,
\* which targets it called and whether its behaviour was undefined.
Op(op, ref, path, tgt, obj) ==
    [op |-> op, ref |-> ref, path |-> path, tgt |-> tgt, obj |-> obj,
     arg |-> 0, ret |-> 0, calls |-> << >>, ub |-> FALSE]
Called(ref, a, o) ==
    [op |-> "call", ref |-> ref, path |-> "()", tgt |-> "-", obj |-> "-",
     arg |-> a, ret |-> o.ret, calls |-> o.calls, ub |-> o.ub]

Init ==
    /\ layout \in Layouts
    /\ d = [r \in Refs |-> DefaultConstruct]
    /\ last = Op("construct", "-", "-", "-", "-")

\* A binding that writes the two words of every delegate, as if m_cb and
\* m_ptr were shared between the objects.
Bind_shared(r, op, path, tgt, obj, b) ==
    /\ b.ok
    /\ d' = [q \in Refs |-> b.val]
    /\ last' = Op(op, r, path, tgt, obj)
    /\ UNCHANGED layout

\* r takes the value of the well-formed binding expression b: the two
\* words of r are written, and nothing else.
Bind(r, op, path, tgt, obj, b) ==
    /\ b.ok
    /\ d' = [d EXCEPT ![r] = b.val]
    /\ last' = Op(op, r, path, tgt, obj)
    /\ UNCHANGED layout

\* r.clear(); the history keeps which trampoline r selected before, and
\* whether the operation just before copied r into the other reference.
ClearOp(r) ==
    /\ r \in Refs
    /\ Bind(r, "clear", "clear", TrampAt(d[r].m_cb).kind,
            IF last.op = "copy" /\ last.tgt = r THEN "copied" ELSE "-",
            Built(clear(d[r])))

\* r.set<fkn>()  /  r = delegate::make<fkn>()
FreeOp(r, path, fkn) ==
    /\ path \in Paths
    /\ Bind(r, "free", path, fkn, "-", BindFree(d[r], path, fkn))

\* r.set(fkn) / r.set_fkn(fkn) / r = delegate::make(fkn) /
\* r = delegate::make_fkn(fkn)
RuntimeOp(r, path, fkn) ==
    /\ path \in RuntimePaths
    /\ Bind(r, "runtime", path, fkn, "-", BindRuntime(d[r], path, fkn))

\* r.set<X, &X::mf>(arg)  /  r = delegate::make<X, &X::mf>(arg)
MemberOp(r, path, mf, arg) ==
    /\ path \in Paths
    /\ Bind(r, "member", path, mf, arg.obj, BindMember(d[r], path, mf, arg))

\* r.set(arg)  /  r = delegate::make(arg)
FunctorOp(r, path, arg) ==
    /\ path \in Paths
    /\ Bind(r, "functor", path, "X::operator()", arg.obj,
            BindFunctor(d[r], path, arg))

\* r = delegate::make<X, cf>(arg)
CtxOp(r, cf, arg) ==
    /\ cf \in CtxFkns
    /\ Bind(r, "ctx", "make", cf, arg.obj, BindCtx(cf, arg))

\* r.set(handle, arg)  /  r = delegate::make(handle, arg)
MemFknOp(r, path, h, arg) ==
    /\ path \in Paths
    /\ Bind(r, "handle", path, h, arg.obj,
            BindMemFkn(d[r], path, Handle(h), arg))

\* r = src  (the implicit copy assignment: both words)
CopyOp(r, src) ==
    /\ r # src
    /\ Bind(r, "copy", "=", src, "-", Built(d[src]))

\* r(a)
CallOp(r, a) ==
    /\ \E o \in Invoke(d[r], a) : last' = Called(r, a, o)
    /\ UNCHANGED << layout, d >>

Next ==
    \/ \E r \in Refs : ClearOp(r)
    \/ \E r \in Refs, path \in Paths, fkn \in Fkns \cup {NoFkn} :
          FreeOp(r, path, fkn)
    \/ \E r \in Refs, path \in RuntimePaths, fkn \in Fkns \cup {NoFkn} :
          RuntimeOp(r, path, fkn)
    \/ \E r \in Refs, path \in Paths, mf \in MemberFkns, arg \in ArgExprs :
          MemberOp(r, path, mf, arg)
    \/ \E r \in Refs, path \in Paths, arg \in ArgExprs : FunctorOp(r, path, arg)
    \/ \E r \in Refs, cf \in CtxFkns, arg \in ArgExprs : CtxOp(r, cf, arg)
    \/ \E r \in Refs, path \in Paths, h \in HandleNames, arg \in ArgExprs :
          MemFknOp(r, path, h, arg)
    \/ \E r \in Refs, src \in Refs : CopyOp(r, src)
    \/ \E r \in Refs, a \in Args : CallOp(r, a)

Spec == Init /\ [][Next]_vars

----------------------------------------------------------------------------
(* Well-formedness of the model's states                                    *)

\* The trampoline a delegate selects.
Adapter(self) == TrampAt(self.m_cb)

\* The union member each operation reads is the one written last: fkn_ptr
\* exactly when the delegate selects doRuntimeFkn.
UnionDiscipline ==
    \A r \in Refs :
        d[r].m_ptr.active =
            IF Adapter(d[r]) = doRuntimeFkn THEN "fkn_ptr" ELSE "v_ptr"

TypeOK ==
    /\ layout \in Layouts
    /\ \A r \in Refs :
          /\ d[r].m_cb \in {CbAddr(t) : t \in Trampolines}
          /\ d[r].m_ptr.bits \in 0..Len(ObjOrder)
    /\ last.ref \in Refs \cup {"-"}

----------------------------------------------------------------------------
(* Properties                                                               *)

\* The delegates the program holds, as values.
Held == {d[r] : r \in Refs}

\* C1: delegate::less is a strict total order over the references the
\* program can hold, in every layout: irreflexive, asymmetric, transitive,
\* and any two references that are not equal are ordered one way exactly.
C1_LessStrictTotalOrder ==
    /\ \A p \in Held : ~less(p, p)
    /\ \A p, q \in Held : ~(less(p, q) /\ less(q, p))
    /\ \A p, q, s \in Held : less(p, q) /\ less(q, s) => less(p, s)
    /\ \A p, q \in Held : ~equal(p, q) => (less(p, q) # less(q, p))

\* C2: a null reference orders strictly before every non-null reference,
\* wherever the null trampoline lies relative to the other's trampoline.
C2_NullOrdersFirst ==
    \A n, p \in Held : null(n) /\ ~null(p) => less(n, p) /\ ~less(p, n)

\* What a delegate's data word designates: a function (the fkn_ptr member
\* is the one stored) or an object (the v_ptr member is), or nothing.
Payload(p) ==
    IF p.m_ptr.active = "fkn_ptr"
    THEN [kind |-> "function",
          name |-> IF p.m_ptr.bits = NullPtr THEN NoFkn ELSE FknAt(p.m_ptr.bits)]
    ELSE [kind |-> "object",
          name |-> IF p.m_ptr.bits = NullPtr THEN "-" ELSE ObjAt(p.m_ptr.bits)]

\* C3: two references are equal exactly when they select the same
\* trampoline and hold the same payload, the payload being the stored
\* function pointer for doRuntimeFkn and the stored object pointer
\* otherwise; a member function bound to two distinct live objects gives
\* two references that are not equal.
C3_EqualIffSameAdapterAndPayload ==
    /\ \A p, q \in Held :
          /\ equal(p, q) <=> (Adapter(p) = Adapter(q) /\ Payload(p) = Payload(q))
          /\ OperatorEq(p, q) = equal(p, q)
          /\ OperatorNe(p, q) = ~equal(p, q)
    /\ \A p \in Held :
          Payload(p).kind =
              IF Adapter(p) = doRuntimeFkn THEN "function" ELSE "object"
    /\ last.op = "member" /\ last.obj \in Objs =>
          \A path \in Paths, o2 \in Objs \ {last.obj} :
              LET other == BindMember(DefaultConstruct, path, last.tgt, Lvalue(o2))
              IN other.ok =>
                    /\ other.val.m_cb = d[last.ref].m_cb
                    /\ ~equal(d[last.ref], other.val)
                    /\ ~equal(other.val, d[last.ref])

\* a has just been bound to X::m on x while b is bound to X::m on y.
C3_Witness ==
    /\ last.op = "member" /\ last.ref = "a"
    /\ last.tgt = "X::m" /\ last.obj = "x"
    /\ Adapter(d["b"]) = doMemberCB /\ Payload(d["b"]).name = "y"
    /\ ~equal(d["a"], d["b"])

\* C4: a reference bound to a function pointer through the runtime path
\* equals every reference bound to the same pointer value through any of
\* set(fkn), set_fkn, make(fkn), make_fkn, whatever that reference held
\* before, and equals no reference bound to the same function through the
\* compile-time path set<f>() / make<f>().
C4_RuntimePathEquality ==
    last.op = "runtime" =>
        /\ \A path \in RuntimePaths, r \in Refs :
              LET other == BindRuntime(d[r], path, last.tgt)
              IN /\ other.ok
                 /\ equal(d[last.ref], other.val)
                 /\ equal(other.val, d[last.ref])
        /\ last.tgt \in Fkns =>
              \A path \in Paths, r \in Refs :
                  LET other == BindFree(d[r], path, last.tgt)
                  IN /\ other.ok
                     /\ ~equal(d[last.ref], other.val)
                     /\ ~equal(other.val, d[last.ref])

\* a has just been bound to f by set(fkn) while b was bound to an object,
\* so b's data word holds an object address before b.set(f) overwrites it.
C4_Witness ==
    /\ last.op = "runtime" /\ last.path = "set" /\ last.tgt = "f"
    /\ last.ref = "a"
    /\ Payload(d["b"]).kind = "object" /\ Payload(d["b"]).name = "x"

\* C5: a default-constructed reference, and a reference after clear()
\* whatever it selected before, is null: null() holds, the boolean test is
\* false, it equals nullptr, it selects doNullFkn with empty data, and
\* invoking it calls nothing and returns R{}.
IsNullReference(p) ==
    /\ null(p) /\ ~bool(p) /\ OperatorEqNullptr(p)
    /\ Adapter(p) = doNullFkn
    /\ p.m_ptr = DataPtr_default
    /\ \A a \in Args : Invoke(p, a) = {Outcome(nullReturnFunction, << >>)}

C5_NullAfterDefaultOrClear ==
    /\ last.op = "construct" => \A r \in Refs : IsNullReference(d[r])
    /\ last.op = "clear" => IsNullReference(d[last.ref])
    /\ IsNullReference(DefaultConstruct)
    /\ last.op = "call" /\ d[last.ref] = DefaultConstruct =>
          last.ret = nullReturnFunction /\ last.calls = << >> /\ ~last.ub

\* a has just been cleared after holding a runtime function pointer.
C5_Witness ==
    /\ last.op = "clear" /\ last.tgt = "doRuntimeFkn" /\ last.ref = "a"
    /\ null(d["a"])

\* C6: copies are independent.  A copy gives its target the source's two
\* words and leaves the source as it was; every operation applied to one
\* reference leaves every other reference's trampoline and data, and the
\* layout that invocation reads, unchanged; when a reference is cleared
\* right after it was copied, the copy still invokes what the cleared
\* reference invoked before.
C6_CopiesIndependent ==
    [][ /\ \A r \in Refs :
              r # last'.ref => d'[r] = d[r] /\ layout' = layout
        /\ last'.op = "copy" =>
              /\ d'[last'.ref] = d[last'.tgt]
              /\ d'[last'.tgt] = d[last'.tgt]
        /\ last'.op = "clear" /\ last'.obj = "copied" =>
              \A r \in Refs \ {last'.ref}, a \in Args :
                  Invoke(d'[r], a) = Invoke(d[last'.ref], a) ]_vars

\* b was copied from a, then a was cleared: b still holds the member
\* binding, a is null.
C6_Witness ==
    /\ last.op = "clear" /\ last.obj = "copied" /\ last.ref = "a"
    /\ last.tgt = "doMemberCB"
    /\ Adapter(d["b"]) = doMemberCB /\ null(d["a"])

\* C7: binding a handle memFkn<X, m>() with an object x, by set or by make,
\* gives the trampoline and data that binding m directly to x gives, by set
\* or by make from any prior state: the two are equal, and invoking either
\* calls x.m(a) and returns its value.  The handle path accepts a live
\* object exactly when the direct path does.
MemberCall(mf, o, a) ==
    IF IsConstMember(mf)
    THEN Outcome(ConstMemberValue(o, a), << CallOf(mf, o, a) >>)
    ELSE Outcome(MemberValue(o, a), << CallOf(mf, o, a) >>)

C7_HandleEqualsDirectBinding ==
    /\ last.op = "handle" /\ last.tgt \in MemberFkns /\ last.obj \in Objs =>
          \A path \in Paths, r \in Refs :
              LET direct == BindMember(d[r], path, last.tgt, Lvalue(last.obj))
              IN /\ direct.ok
                 /\ direct.val = d[last.ref]
                 /\ equal(d[last.ref], direct.val)
                 /\ \A a \in Args :
                       /\ Invoke(d[last.ref], a) =
                             {MemberCall(last.tgt, last.obj, a)}
                       /\ Invoke(direct.val, a) = Invoke(d[last.ref], a)
    /\ \A path \in Paths, mf \in MemberFkns, o \in Objs, r \in Refs :
          BindMemFkn(d[r], path, memFkn(mf), Lvalue(o)).ok
              = BindMember(d[r], path, mf, Lvalue(o)).ok

\* a has just been bound by set(memFkn<X, &X::cm>(), cx).
C7_Witness ==
    /\ last.op = "handle" /\ last.path = "set" /\ last.ref = "a"
    /\ last.tgt = "X::cm" /\ last.obj = "cx"
    /\ Adapter(d["a"]) = doConstMemberCB

\* C8: after set<f>() or make<f>() with a non-null f, whatever the
\* reference held before, the reference selects doFreeCB<f> with empty
\* data; invoking it with a calls f once with a and returns f(a), and the
\* result does not depend on the data word.
FreeCall(fkn, a) == Outcome(FreeFknValue(fkn, a), << CallOf(fkn, "-", a) >>)

C8_FreeFunctionBinding ==
    /\ last.op = "free" /\ last.tgt \in Fkns =>
          /\ Adapter(d[last.ref]) = doFreeCB(last.tgt)
          /\ d[last.ref].m_ptr = DataPtr_default
          /\ \A a \in Args :
                /\ Invoke(d[last.ref], a) = {FreeCall(last.tgt, a)}
                /\ \A o \in Objs :
                      TrampolineOutcomes(doFreeCB(last.tgt),
                                         DataPtr_void(ObjAddr(o)), a)
                          = {FreeCall(last.tgt, a)}
    /\ last.op = "call" /\ Adapter(d[last.ref]).kind = "doFreeCB" =>
          /\ ~last.ub
          /\ last.ret = FreeFknValue(Adapter(d[last.ref]).tgt, last.arg)
          /\ last.calls = << CallOf(Adapter(d[last.ref]).tgt, "-", last.arg) >>

\* a, bound to g through the compile-time path, has just been invoked
\* with 1 and returned g(1).
C8_Witness ==
    /\ last.op = "call" /\ last.ref = "a" /\ last.arg = 1
    /\ Adapter(d["a"]) = doFreeCB("g")
    /\ last.ret = FreeFknValue("g", 1)
    /\ last.calls = << CallOf("g", "-", 1) >>

\* C9: context-function binding works for both forms of the target: for
\* h(X&, int) and for hc(X const&, int), make<X, fkn>(o) with a live object
\* o builds, stores the address of o, and invoking the result with a is
\* calling fkn(o, a).
CtxCall(cf, o, a) ==
    IF cf = "h" THEN Outcome(CtxRefValue(o, a), << CallOf(cf, o, a) >>)
    ELSE Outcome(CtxConstRefValue(o, a), << CallOf(cf, o, a) >>)

C9_ContextBindingBothForms ==
    \A cf \in CtxFkns, o \in NonConstObjs :
        LET b == BindCtx(cf, Lvalue(o))
        IN /\ b.ok
           /\ v_ptr(b.val.m_ptr) = ObjAddr(o)
           /\ \A a \in Args : Invoke(b.val, a) = {CtxCall(cf, o, a)}

\* C10: binding through a handle checks constness when the program is
\* built, for set and for make alike: a const handle binds a const or a
\* non-const object, a non-const handle binds a non-const object and is
\* rejected with a const one, a temporary is rejected for either handle;
\* so no reference is ever bound by a rejected combination.
C10_HandleConstnessChecked ==
    /\ \A path \in Paths, h \in HandleNames, r \in Refs :
          /\ \A o \in NonConstObjs :
                BindMemFkn(d[r], path, Handle(h), Lvalue(o)).ok
          /\ \A o \in ConstObjs :
                BindMemFkn(d[r], path, Handle(h), Lvalue(o)).ok = Handle(h).cnst
          /\ \A c \in BOOLEAN :
                ~BindMemFkn(d[r], path, Handle(h), Temporary(c)).ok
    /\ last.op = "handle" =>
          /\ last.obj \in Objs
          /\ last.obj \in ConstObjs => Handle(last.tgt).cnst
          /\ v_ptr(d[last.ref].m_ptr) = ObjAddr(last.obj)
          /\ d[last.ref].m_cb = Handle(last.tgt).trampoline

\* a has just been bound by set(memFkn<X, &X::cm>(), x): a const handle
\* with a non-const object.
C10_Witness ==
    /\ last.op = "handle" /\ last.path = "set" /\ last.ref = "a"
    /\ last.tgt = "X::cm" /\ last.obj = "x"
    /\ ~null(d["a"])

\* C11: every binding kind is available as set and as make, and for the
\* same arguments set applied to a reference in any reachable state leaves
\* it with the trampoline and data make returns: both calls build, and the
\* two delegates have the same two words and are equal.
Agree(S, M) == S.ok /\ M.ok /\ S.val = M.val /\ equal(S.val, M.val)

BindingKinds == {"free", "member", "functor", "ctx", "runtime", "handle"}

SetMakeAgree(self, kind) ==
    CASE kind = "free" ->
            \A fkn \in Fkns \cup {NoFkn} :
                Agree(BindFree(self, "set", fkn), BindFree(self, "make", fkn))
      [] kind = "runtime" ->
            \A fkn \in Fkns \cup {NoFkn} :
                /\ Agree(BindRuntime(self, "set", fkn),
                         BindRuntime(self, "make", fkn))
                /\ Agree(BindRuntime(self, "set_fkn", fkn),
                         BindRuntime(self, "make_fkn", fkn))
      [] kind = "member" ->
            \A mf \in MemberFkns, o \in Objs :
                IsConstMember(mf) \/ o \in NonConstObjs =>
                    Agree(BindMember(self, "set", mf, Lvalue(o)),
                          BindMember(self, "make", mf, Lvalue(o)))
      [] kind = "functor" ->
            \A o \in Objs :
                Agree(BindFunctor(self, "set", Lvalue(o)),
                      BindFunctor(self, "make", Lvalue(o)))
      [] kind = "ctx" ->
            \A cf \in CtxFkns, o \in NonConstObjs :
                Agree(BindCtxBy(self, "set", cf, Lvalue(o)),
                      BindCtxBy(self, "make", cf, Lvalue(o)))
      [] OTHER ->
            \A h \in HandleNames, o \in Objs :
                Handle(h).cnst \/ o \in NonConstObjs =>
                    Agree(BindMemFkn(self, "set", Handle(h), Lvalue(o)),
                          BindMemFkn(self, "make", Handle(h), Lvalue(o)))

C11_SetAndMakeAgree ==
    \A r \in Refs, kind \in BindingKinds : SetMakeAgree(d[r], kind)

\* C12: all null references are indistinguishable: in every reachable
\* state a reference for which null() holds has empty data and is equal
\* (equal, operator==) to a default-constructed reference, so two
\* references that both compare equal to nullptr are equal to each other.
C12_NullReferencesIndistinguishable ==
    /\ \A p \in Held :
          null(p) =>
              /\ v_ptr(p.m_ptr) = NullPtr
              /\ equal(p, DefaultConstruct) /\ equal(DefaultConstruct, p)
              /\ OperatorEq(p, DefaultConstruct)
    /\ \A p, q \in Held :
          OperatorEqNullptr(p) /\ OperatorEqNullptr(q) => equal(p, q)

\* C13: invocation never calls through a null function pointer: in every
\* reachable state each reference either is null, and invoking it calls
\* nothing and returns R{}, or holds a non-null target (a non-null function
\* pointer for doRuntimeFkn, a non-null object pointer for the object
\* trampolines); an invocation through doRuntimeFkn is never undefined.
NonNullTarget(p) ==
    CASE Adapter(p).kind = "doNullFkn" -> FALSE
      [] Adapter(p).kind = "doFreeCB" -> Adapter(p).tgt \in Fkns
      [] Adapter(p).kind = "doRuntimeFkn" -> fkn_ptr(p.m_ptr) # NullPtr
      [] OTHER -> v_ptr(p.m_ptr) # NullPtr

C13_NeverCallsNullFunctionPointer ==
    /\ \A p \in Held :
          \/ /\ null(p)
             /\ \A a \in Args :
                   Invoke(p, a) = {Outcome(nullReturnFunction, << >>)}
          \/ ~null(p) /\ NonNullTarget(p)
    /\ last.op = "call" /\ Adapter(d[last.ref]) = doRuntimeFkn => ~last.ub

====
